---- MODULE Spec2Model ----
(***************************************************************************)
(* covid19-api (src/main.go): the Country aggregate.  The model covers the *)
(* entity sanitisation and validation (Prepare, BeforeSave, Validate), the *)
(* repositories over the two tables country and provinces (Save, Update,   *)
(* GetByID, provinceRepo.Update) and the four HTTP handlers (Store, Edit,  *)
(* FindByCountryID, UpdateProvince).                                       *)
(*                                                                         *)
(* A name is a sequence of one-character strings.  An identifier is a      *)
(* natural number: uuid.NewV4 is a draw of a value never drawn before.     *)
(* A timestamp is the value of a logical clock that ticks once a request.  *)
(***************************************************************************)
EXTENDS Integers, Sequences, FiniteSets, TLC

VARIABLES
    country,     \* table country: set of rows
    provinces,   \* table provinces: set of rows
    nextId,      \* the next value uuid.NewV4 returns
    now,         \* the clock read by time.Now()
    pc,          \* position of the request in flight
    req,         \* Store: the local variable country, passed to Save as c
    tx,          \* Save, Delete: the transaction tx and the rows it holds
    err,         \* Save, Delete: the variable err declared at line 409, 502
    ret,         \* Save, Delete: the value returned
    pre,         \* the tables and saved when the last request arrived
    blanks,      \* the positions of the last payload's blank names
    fault,       \* the storage call the environment made fail in this request
    saved,       \* every aggregate Save was called with: [id, pids]
    resp,        \* the response of the last finished request
    asked,       \* Edit: the payload's provinces, in order: [ID, Name]
    cancelled,   \* where the request was when its context was cancelled
    get,         \* a GetByID that runs beside the requests
    sName,       \* sanitisation run: the name given
    sOnce,       \* sanitisation run: the name after one Prepare
    sTwice,      \* sanitisation run: the name after two Prepare
    sPc          \* sanitisation run: number of Prepare applied

vars == <<country, provinces, nextId, now, pc, req, tx, err, ret, pre, blanks,
          fault, saved, resp, asked, cancelled, get, sName, sOnce, sTwice,
          sPc>>

storeVars == <<country, provinces, nextId, now, pc, req, tx, err, ret, pre,
               blanks, fault, saved, resp, asked, cancelled, get>>

sanitizeVars == <<sName, sOnce, sTwice, sPc>>

(***************************************************************************)
(* Bounds of the model.                                                    *)
(***************************************************************************)
\* longest provinces collection of a request payload
MaxProv == 2
\* number of requests served (the clock stops there)
MaxTime == 2
\* number of identifiers uuid.NewV4 hands out
MaxIds == 4
\* longest name given to a sanitisation run
MaxNameLen == 2

(***************************************************************************)
(* strings.TrimSpace and html.EscapeString, as main.go uses them.          *)
(***************************************************************************)
IsSpace(ch) == ch = " "

RECURSIVE TrimLeft(_)
TrimLeft(s) ==
    IF s = <<>> THEN s
    ELSE IF IsSpace(Head(s)) THEN TrimLeft(Tail(s)) ELSE s

RECURSIVE TrimRight(_)
TrimRight(s) ==
    IF s = <<>> THEN s
    ELSE IF IsSpace(s[Len(s)]) THEN TrimRight(SubSeq(s, 1, Len(s) - 1)) ELSE s

\* as if one leading blank were cut (strings.TrimPrefix(s, " "))
TrimPrefixOnce(s) == IF s # <<>> /\ IsSpace(Head(s)) THEN Tail(s) ELSE s

\* strings.TrimSpace
TrimSpace(s) == TrimRight(TrimLeft(s))

Amp == <<"&", "a", "m", "p", ";">>
Apos == <<"&", "#", "3", "9", ";">>
Lt == <<"&", "l", "t", ";">>
Gt == <<"&", "g", "t", ";">>
Quot == <<"&", "#", "3", "4", ";">>

MetaChars == {"&", "'", "<", ">", "\""}

EscapeChar(ch) ==
    CASE ch = "&" -> Amp
      [] ch = "'" -> Apos
      [] ch = "<" -> Lt
      [] ch = ">" -> Gt
      [] ch = "\"" -> Quot
      [] OTHER -> <<ch>>

RECURSIVE EscapeString(_)
EscapeString(s) ==
    IF s = <<>> THEN <<>> ELSE EscapeChar(Head(s)) \o EscapeString(Tail(s))

\* Country.Prepare and Province.Prepare: the new value of the field Name
PrepareName(name) == EscapeString(TrimSpace(name))

(***************************************************************************)
(* The data model: the structs Province and Country, and the rows of the   *)
(* two tables.  Districts are never persisted and are left out.            *)
(***************************************************************************)
\* an identifier that uuid.NewV4 never returns (the zero value of ID)
NoID == 0

\* the seven counters of a payload, drawn as one family: all differ
Province(id, name, t) ==
    [ID |-> id, Name |-> name, Total |-> t, NewCase |-> t + 10,
     Treated |-> t + 20, DecoveringCase |-> t + 30, TestCase |-> t + 40,
     Dead |-> t + 50, NegativeTest |-> t + 60, UpdatedAt |-> 0]

Country(id, name, t, ps) ==
    [ID |-> id, Name |-> name, Total |-> t, NewCase |-> t + 10,
     Treated |-> t + 20, DecoveringCase |-> t + 30, TestCase |-> t + 40,
     NegativeTest |-> t + 60, Dead |-> t + 50, Provinces |-> ps,
     UpdatedAt |-> 0]

\* the zero value of Country
NoCountry == Country(NoID, <<>>, 0, <<>>)

\* payload names: empty, blank, to be trimmed, to be escaped
RawNames == {<<>>, <<" ">>, <<"a", " ">>, <<"<">>}

\* counters of the provinces of a POST payload: two values, so that totals
\* can differ and tie
Totals == {0, 1}

\* counters of the country of a POST payload
CountryTotals == {1}

\* counters of a PUT payload: a value no POST payload has
NewTotals == {2}

\* a name TrimSpace leaves nothing of
IsBlank(name) == \A i \in DOMAIN name : name[i] = " "

\* the positions of the blank names of a Country payload: 0 is the country,
\* k its k-th province
BlankPositions(c) ==
    {k \in {0} \cup DOMAIN c.Provinces :
        IF k = 0 THEN IsBlank(c.Name) ELSE IsBlank(c.Provinces[k].Name)}

SeqsUpTo(S, n) == UNION {[1 .. m -> S] : m \in 0 .. n}

Range(s) == {s[i] : i \in DOMAIN s}

\* the bodies c.Bind parses into a Country on POST /api/v1/country
StorePayloads ==
    {Country(NoID, n, t, ps) :
        n \in RawNames, t \in CountryTotals,
        ps \in SeqsUpTo({Province(NoID, pn, pt) : pn \in RawNames, pt \in Totals},
                        MaxProv)}

(***************************************************************************)
(* Country.Prepare, BeforeSave, Validate and the like, on the entities.    *)
(***************************************************************************)
\* Country.Prepare
CountryPrepare(c) == [c EXCEPT !.Name = PrepareName(c.Name)]

\* Province.Prepare
ProvincePrepare(p) == [p EXCEPT !.Name = PrepareName(p.Name)]

\* Country.BeforeSave, Province.BeforeSave: uuid.NewV4 returned id
BeforeSave(e, id) == [e EXCEPT !.ID = id]

\* Country.Validate: TRUE when it returns nil
CountryValidate(c) == c.Name # <<>>

\* Province.Validate: TRUE when it returns nil
ProvinceValidate(p) == p.Name # <<>>

(***************************************************************************)
(* The tables.                                                             *)
(***************************************************************************)
\* the row countryRepo.Save inserts into country
CountryRow(c) ==
    [id |-> c.ID, name |-> c.Name, total |-> c.Total, new_case |-> c.NewCase,
     treated |-> c.Treated, decovering_case |-> c.DecoveringCase,
     test_case |-> c.TestCase, dead |-> c.Dead,
     negative_case |-> c.NegativeTest, updated_at |-> c.UpdatedAt]

\* the row countryRepo.Save inserts into provinces for p of country c
ProvinceRow(c, p) ==
    [id |-> p.ID, name |-> p.Name, total |-> p.Total, new_case |-> p.NewCase,
     treated |-> p.Treated, decovering_case |-> p.DecoveringCase,
     test_case |-> p.TestCase, dead |-> p.Dead,
     negative_case |-> p.NegativeTest, country_id |-> c.ID,
     updated_at |-> p.UpdatedAt]

NoTx == [status |-> "none", country |-> {}, provinces |-> {}]

Snapshot == [country |-> country, provinces |-> provinces, saved |-> saved]

\* a response: the handler, the status, the message, the identifier the
\* request named, the position at which the handler gave up, the body
Response(op, status, msg, id, at, c) ==
    [op |-> op, status |-> status, msg |-> msg, id |-> id, at |-> at,
     country |-> c]

NoResponse == Response("none", 0, "", NoID, 0, NoCountry)

\* the context of the request in flight is not cancelled
NotCancelled == "no"

\* no GetByID runs beside the requests
NoGet ==
    [pc |-> "idle", id |-> NoID, f |-> "none", c |-> NoCountry, out |-> "none"]

(***************************************************************************)
(* countryService.Store, up to the call of Save (lines 171-191).           *)
(***************************************************************************)
\* lines 176-178: the country after Prepare, BeforeSave and the timestamp
StoreCountry(c, id, t) ==
    [BeforeSave(CountryPrepare(c), id) EXCEPT !.UpdatedAt = t]

\* as if the loop left Prepare out
StoreProvinceUnprepared(p, id, t) == [BeforeSave(p, id) EXCEPT !.UpdatedAt = t]

\* lines 184-186: the k-th province after Prepare, BeforeSave, timestamp
StoreProvince(p, id, t) ==
    [BeforeSave(ProvincePrepare(p), id) EXCEPT !.UpdatedAt = t]

\* the provinces as the loop of lines 183-190 leaves them when none fails
StoreProvinces(ps, id, t) ==
    [k \in DOMAIN ps |-> StoreProvince(ps[k], id + k, t)]

\* the first k at which the loop of lines 183-190 returns, 0 when none
FirstInvalid(ps) ==
    LET bad == {k \in DOMAIN ps : ~ProvinceValidate(ps[k])}
    IN  IF bad = {} THEN 0 ELSE CHOOSE k \in bad : \A j \in bad : k <= j

StoreInit ==
    /\ country = {}
    /\ provinces = {}
    /\ nextId = 1
    /\ now = 0
    /\ pc = "idle"
    /\ req = NoCountry
    /\ tx = NoTx
    /\ err = "nil"
    /\ ret = "nil"
    /\ pre = [country |-> {}, provinces |-> {}, saved |-> {}]
    /\ blanks = {}
    /\ fault = "none"
    /\ saved = {}
    /\ resp = NoResponse
    /\ asked = <<>>
    /\ cancelled = NotCancelled
    /\ get = NoGet

NoNames == [country |-> <<>>, province |-> <<>>]

Init ==
    /\ StoreInit
    /\ sName = <<>>
    /\ sOnce = NoNames
    /\ sTwice = NoNames
    /\ sPc = 0

\* a request arrives whose handler reads time.Now(): the clock ticks
Arrive ==
    /\ pc = "idle"
    /\ now < MaxTime
    /\ now' = now + 1
    /\ pre' = Snapshot
    /\ cancelled' = NotCancelled
    /\ UNCHANGED <<sanitizeVars, get>>

\* POST /api/v1/country with a body c.Bind cannot parse (lines 173-175)
StoreUnparsable ==
    /\ Arrive
    /\ resp' = Response("Store", 422, "request: unable to parse request payload",
                        NoID, 0, NoCountry)
    /\ fault' = "none"
    /\ blanks' = {}
    /\ asked' = <<>>
    /\ UNCHANGED <<country, provinces, nextId, pc, req, tx, err, ret, saved>>

\* POST /api/v1/country: lines 172-191, then the call of Save at line 192
Store ==
    /\ Arrive
    /\ \E body \in StorePayloads :
          /\ nextId + Len(body.Provinces) <= MaxIds
          /\ blanks' = BlankPositions(body)
          /\ asked' = <<>>
          /\ LET c == StoreCountry(body, nextId, now')
                 ps == StoreProvinces(body.Provinces, nextId, now')
                 k == FirstInvalid(ps)
             IN  /\ fault' = "none"
                 /\ IF ~CountryValidate(c)
                    THEN /\ resp' = Response("Store", 400, "country: name is required",
                                             NoID, 0, NoCountry)
                         /\ nextId' = nextId + 1
                         /\ UNCHANGED <<pc, req, tx, err, ret, saved>>
                    ELSE IF k # 0
                    THEN /\ resp' = Response("Store", 400, "province: name is required",
                                             NoID, k, NoCountry)
                         /\ nextId' = nextId + 1 + k
                         /\ UNCHANGED <<pc, req, tx, err, ret, saved>>
                    ELSE /\ req' = [c EXCEPT !.Provinces = ps]
                         /\ nextId' = nextId + 1 + Len(ps)
                         /\ saved' = saved \cup
                               {[id |-> c.ID, pids |-> {ps[i].ID : i \in DOMAIN ps}]}
                         /\ pc' = "save_begin"
                         /\ tx' = NoTx
                         /\ err' = "nil"
                         /\ ret' = "nil"
                         /\ UNCHANGED resp
    /\ UNCHANGED <<country, provinces>>

(***************************************************************************)
(* countryRepo.Save (lines 408-481), one storage call at a time.  The      *)
(* store is PostgreSQL behind database/sql and lib/pq: a statement the     *)
(* server rejects leaves the transaction aborted, and Commit on an aborted *)
(* transaction rolls it back and returns an error.  squirrel builds the    *)
(* SQL text before it calls the store, and refuses to build an INSERT with *)
(* no row of values.  Every storage call is given the context of the       *)
(* request: once it is cancelled BeginTx and ExecContext return its error  *)
(* without calling the store, database/sql rolls the open transaction      *)
(* back, and Tx.Commit, which looks at the context once, as it is entered, *)
(* returns the error without committing.                                   *)
(***************************************************************************)
\* the value of the outer err after an insert returned e: the inserts assign
\* the err of their own if statement (lines 424 and 476), not the outer one
OuterErrAfterInsert(outer, e) == outer

\* as if the country insert ran on cr.db, outside the transaction
InsertRunsOnDb == FALSE

\* the country insert runs on the transaction: RunWith(tx), line 446
InsertRunsInTx == TRUE

\* the context of the caller is cancelled while Save or Delete runs; the
\* value records where it was
Cancel ==
    /\ pc \in {"save_begin", "save_country", "save_provinces", "save_defer",
               "save_commit", "delete_country", "delete_provinces",
               "delete_defer"}
    /\ cancelled = NotCancelled
    /\ cancelled' = pc
    /\ UNCHANGED <<country, provinces, nextId, now, pc, req, tx, err, ret, pre,
                   blanks, fault, saved, resp, asked, get>>
    /\ UNCHANGED sanitizeVars

\* lines 409-412
SaveBegin ==
    /\ pc = "save_begin"
    /\ IF cancelled # NotCancelled
       THEN /\ err' = "context_canceled"
            /\ ret' = "context_canceled"
            /\ fault' = "cancel"
            /\ pc' = "store_respond"
            /\ UNCHANGED tx
       ELSE \E ok \in BOOLEAN :
               IF ok
               THEN /\ tx' = [status |-> "active", country |-> {},
                              provinces |-> {}]
                    /\ err' = "nil"
                    /\ pc' = "save_country"
                    /\ UNCHANGED <<ret, fault>>
               ELSE /\ err' = "begin_error"
                    /\ ret' = "begin_error"
                    /\ fault' = "begin"
                    /\ pc' = "store_respond"
                    /\ UNCHANGED tx
    /\ UNCHANGED <<country, provinces, nextId, now, req, pre, blanks, saved, resp>>
    /\ UNCHANGED <<sanitizeVars, asked, cancelled, get>>

\* lines 424-448
SaveInsertCountry ==
    /\ pc = "save_country"
    /\ IF cancelled # NotCancelled
       THEN \* ExecContext returns the error of the context; database/sql
            \* has rolled the transaction back
            /\ tx' = [tx EXCEPT !.status = "rolledback"]
            /\ err' = OuterErrAfterInsert(err, "context_canceled")
            /\ ret' = "context_canceled"
            /\ fault' = "cancel"
            /\ pc' = "save_defer"
            /\ UNCHANGED country
       ELSE \E ok \in BOOLEAN :
               IF ok
               THEN /\ IF InsertRunsInTx
                       THEN /\ tx' = [tx EXCEPT !.country = {CountryRow(req)}]
                            /\ UNCHANGED country
                       ELSE /\ country' = country \cup {CountryRow(req)}
                            /\ UNCHANGED tx
                    /\ pc' = "save_provinces"
                    /\ UNCHANGED <<err, ret, fault>>
               ELSE /\ tx' = [tx EXCEPT !.status = "aborted"]
                    /\ err' = OuterErrAfterInsert(err, "country_insert_error")
                    /\ ret' = "country_insert_error"
                    /\ fault' = "country_insert"
                    /\ pc' = "save_defer"
                    /\ UNCHANGED country
    /\ UNCHANGED <<provinces, nextId, now, req, pre, blanks, saved, resp>>
    /\ UNCHANGED <<sanitizeVars, asked, cancelled, get>>

\* lines 450-480
SaveInsertProvinces ==
    /\ pc = "save_provinces"
    /\ IF Len(req.Provinces) = 0
       THEN \* squirrel: "insert statements must have at least one set of
            \* values or select clause"; the store is not called
            /\ err' = OuterErrAfterInsert(err, "no_values_error")
            /\ ret' = "no_values_error"
            /\ UNCHANGED <<tx, fault>>
       ELSE IF cancelled # NotCancelled
       THEN /\ tx' = [tx EXCEPT !.status = "rolledback"]
            /\ err' = OuterErrAfterInsert(err, "context_canceled")
            /\ ret' = "context_canceled"
            /\ fault' = "cancel"
       ELSE \E ok \in BOOLEAN :
               IF ok
               THEN /\ tx' = [tx EXCEPT !.provinces =
                                 {ProvinceRow(req, p) : p \in Range(req.Provinces)}]
                    /\ ret' = "nil"
                    /\ UNCHANGED <<err, fault>>
               ELSE /\ tx' = [tx EXCEPT !.status = "aborted"]
                    /\ err' = OuterErrAfterInsert(err, "province_insert_error")
                    /\ ret' = "province_insert_error"
                    /\ fault' = "province_insert"
    /\ pc' = "save_defer"
    /\ UNCHANGED <<country, provinces, nextId, now, req, pre, blanks, saved, resp>>
    /\ UNCHANGED <<sanitizeVars, asked, cancelled, get>>

\* as if Tx.Commit went on whatever the state of the context
CommitIgnoresContext == FALSE

\* tx.Commit() at line 415 is given no context of its own: it looks at the
\* context of BeginTx as it is entered and refuses to commit once that
\* context is done
CommitChecksContext == TRUE

\* lines 413-415: the deferred function, run as Save returns, up to the
\* entry of tx.Commit()
SaveDeferred ==
    /\ pc = "save_defer"
    /\ IF err # "nil"
       THEN \* tx.Rollback() at line 419
            /\ tx' = [tx EXCEPT !.status = "rolledback"]
            /\ pc' = "store_respond"
            /\ UNCHANGED fault
       ELSE IF CommitChecksContext /\ cancelled # NotCancelled
       THEN \* Commit returns the error of the context; line 416 returns
            /\ tx' = [tx EXCEPT !.status = "rolledback"]
            /\ pc' = "store_respond"
            /\ fault' = "cancel"
       ELSE /\ pc' = "save_commit"
            /\ UNCHANGED <<tx, fault>>
    /\ UNCHANGED <<country, provinces, nextId, now, req, err, ret, pre, blanks,
                   saved, resp>>
    /\ UNCHANGED <<sanitizeVars, asked, cancelled, get>>

\* lines 415-421: the COMMIT of tx.Commit() at the store
SaveCommit ==
    /\ pc = "save_commit"
    /\ IF tx.status # "active"
       THEN \* Commit fails and rolls back; line 416 returns
            /\ tx' = [tx EXCEPT !.status = "rolledback"]
            /\ UNCHANGED <<country, provinces, fault>>
       ELSE \E ok \in BOOLEAN :
               IF ok
               THEN \* Commit; Rollback at line 419 then finds the
                    \* transaction done
                    /\ country' = country \cup tx.country
                    /\ provinces' = provinces \cup tx.provinces
                    /\ tx' = [tx EXCEPT !.status = "committed"]
                    /\ UNCHANGED fault
               ELSE /\ tx' = [tx EXCEPT !.status = "rolledback"]
                    /\ fault' = "commit"
                    /\ UNCHANGED <<country, provinces>>
    /\ pc' = "store_respond"
    /\ UNCHANGED <<nextId, now, req, err, ret, pre, blanks, saved, resp>>
    /\ UNCHANGED <<sanitizeVars, asked, cancelled, get>>

\* lines 192-196
StoreRespond ==
    /\ pc = "store_respond"
    /\ resp' = IF ret # "nil"
               THEN Response("Store", 500, "Internal server error", NoID, 0,
                             NoCountry)
               ELSE Response("Store", 200, "", req.ID, 0, req)
    /\ pc' = "idle"
    /\ req' = NoCountry
    /\ tx' = NoTx
    /\ err' = "nil"
    /\ ret' = "nil"
    /\ UNCHANGED <<country, provinces, nextId, now, pre, blanks, fault, saved>>
    /\ UNCHANGED <<sanitizeVars, asked, cancelled, get>>

(***************************************************************************)
(* countryRepo.GetByID (lines 533-610) and FindByCountryID (159-169).      *)
(***************************************************************************)
\* the Country the Scan of lines 547-557 fills from a row of country
ScanCountry(r) ==
    [ID |-> r.id, Name |-> r.name, Total |-> r.total, NewCase |-> r.new_case,
     Treated |-> r.treated, DecoveringCase |-> r.decovering_case,
     TestCase |-> r.test_case, Dead |-> r.dead,
     NegativeTest |-> r.negative_case, Provinces |-> <<>>,
     ProvincesNil |-> TRUE, UpdatedAt |-> r.updated_at]

\* the Province the Scan of lines 588-597 fills from a row of provinces
ScanProvince(r) ==
    [ID |-> r.id, Name |-> r.name, Total |-> r.total, NewCase |-> r.new_case,
     Treated |-> r.treated, DecoveringCase |-> r.decovering_case,
     TestCase |-> r.test_case, Dead |-> r.dead,
     NegativeTest |-> r.negative_case, UpdatedAt |-> r.updated_at]

\* WHERE country_id = id (line 576)
ProvinceRowsOf(id) == {r \in provinces : r.country_id = id}

\* as if the order were ascending
OrderedBeforeAsc(r, q) == r.total <= q.total

\* ORDER BY total DESC (line 577): may r come before q
OrderedBefore(r, q) == r.total >= q.total

\* the orders in which the store may return the rows: ties fall either way
Orderings(rows) ==
    {s \in [1 .. Cardinality(rows) -> rows] :
        /\ \A i, j \in DOMAIN s : i # j => s[i] # s[j]
        /\ \A i, j \in DOMAIN s : i < j => OrderedBefore(s[i], s[j])}

\* line 585: ps starts as make(Provinces, 0), an empty collection, not nil
InitialProvincesNil == FALSE

\* as if the error of the Scan were returned as it is
NoRowsErrorRaw == "sql: no rows in result set"

\* sql.ErrNoRows is turned into errNotFound (lines 558-560)
NoRowsError == "errNotFound"

\* GetByID(id): the pairs [err, country] it may return when the storage call
\* named by f fails ("none": no call fails)
GetByID(id, f) ==
    LET found == {r \in country : r.id = id}
    IN  IF f = "country_query"
        THEN {[err |-> "storage_error", country |-> NoCountry]}
        ELSE IF found = {}
        THEN {[err |-> NoRowsError, country |-> NoCountry]}
        ELSE IF f = "province_query"
        THEN {[err |-> "storage_error", country |-> NoCountry]}
        ELSE {[err |-> "nil",
               country |-> [ScanCountry(r) EXCEPT
                   !.Provinces = [i \in DOMAIN s |-> ScanProvince(s[i])],
                   !.ProvincesNil = InitialProvincesNil /\ s = <<>>]] :
                 r \in found, s \in Orderings(ProvinceRowsOf(id))}

\* the identifiers a client may send: every one drawn so far, and one never
\* drawn
KnownIds == 0 .. (nextId - 1)

\* the storage call of GetByID that fails: the country query (line 547), or
\* the province query or the reading of its rows (lines 579-605)
GetFaults == {"none", "country_query", "province_query"}

\* GET /api/v1/country/:country_id
FindByCountryID ==
    /\ pc = "idle"
    /\ pre' = Snapshot
    /\ blanks' = {}
    /\ asked' = <<>>
    /\ cancelled' = NotCancelled
    /\ \E id \in KnownIds, f \in GetFaults :
          \E r \in GetByID(id, f) :
             /\ fault' = f
             /\ resp' = IF r.err = "errNotFound"
                        THEN Response("Find", 404, "Error: No data found", id,
                                      0, NoCountry)
                        ELSE IF r.err # "nil"
                        THEN Response("Find", 500, "Internal server error", id,
                                      0, NoCountry)
                        ELSE Response("Find", 200, "", id, 0, r.country)
    /\ UNCHANGED <<country, provinces, nextId, now, pc, req, tx, err, ret, saved>>
    /\ UNCHANGED <<sanitizeVars, get>>

(***************************************************************************)
(* countryRepo.Delete (lines 501-532), one storage call at a time.  No     *)
(* handler calls it: its caller here is any code that holds a Country.     *)
(* In tx, country and provinces are the rows the transaction has deleted.  *)
(***************************************************************************)
\* the value of the outer err after a delete returned e: as in Save, the
\* deletes assign the err of their own if statement (lines 517 and 524)
OuterErrAfterDelete(outer, e) == outer

\* as if the delete of the country row ran on cr.db, outside the transaction
DeleteRunsOnDb == FALSE

\* the delete of the country row runs on the transaction: RunWith(tx), line
\* 520
DeleteRunsInTx == TRUE

\* Delete(ctx, c) is called; lines 502-505
DeleteBegin ==
    /\ pc = "idle"
    /\ pre' = Snapshot
    /\ blanks' = {}
    /\ asked' = <<>>
    /\ cancelled' = NotCancelled
    /\ \E id \in KnownIds, ok \in BOOLEAN :
          /\ req' = [NoCountry EXCEPT !.ID = id]
          /\ IF ok
             THEN /\ tx' = [status |-> "active", country |-> {}, provinces |-> {}]
                  /\ err' = "nil"
                  /\ ret' = "nil"
                  /\ fault' = "none"
                  /\ pc' = "delete_country"
                  /\ UNCHANGED resp
             ELSE /\ tx' = NoTx
                  /\ err' = "begin_error"
                  /\ ret' = "begin_error"
                  /\ fault' = "begin"
                  /\ resp' = Response("Delete", 0, "begin_error", id, 0, NoCountry)
                  /\ UNCHANGED pc
    /\ UNCHANGED <<country, provinces, nextId, now, saved>>
    /\ UNCHANGED <<sanitizeVars, get>>

\* lines 517-522
DeleteCountryRow ==
    /\ pc = "delete_country"
    /\ IF cancelled # NotCancelled
       THEN /\ tx' = [tx EXCEPT !.status = "rolledback"]
            /\ err' = OuterErrAfterDelete(err, "context_canceled")
            /\ ret' = "context_canceled"
            /\ fault' = "cancel"
            /\ pc' = "delete_defer"
            /\ UNCHANGED country
       ELSE \E ok \in BOOLEAN :
               IF ok
               THEN /\ IF DeleteRunsInTx
                       THEN /\ tx' = [tx EXCEPT !.country =
                                         {r \in country : r.id = req.ID}]
                            /\ UNCHANGED country
                       ELSE /\ country' = {r \in country : r.id # req.ID}
                            /\ UNCHANGED tx
                    /\ pc' = "delete_provinces"
                    /\ UNCHANGED <<err, ret, fault>>
               ELSE /\ tx' = [tx EXCEPT !.status = "aborted"]
                    /\ err' = OuterErrAfterDelete(err, "country_delete_error")
                    /\ ret' = "country_delete_error"
                    /\ fault' = "country_delete"
                    /\ pc' = "delete_defer"
                    /\ UNCHANGED country
    /\ UNCHANGED <<provinces, nextId, now, req, pre, blanks, saved, resp>>
    /\ UNCHANGED <<sanitizeVars, asked, cancelled, get>>

\* lines 524-531
DeleteProvinceRows ==
    /\ pc = "delete_provinces"
    /\ IF cancelled # NotCancelled
       THEN /\ tx' = [tx EXCEPT !.status = "rolledback"]
            /\ err' = OuterErrAfterDelete(err, "context_canceled")
            /\ ret' = "context_canceled"
            /\ fault' = "cancel"
       ELSE \E ok \in BOOLEAN :
               IF ok
               THEN /\ tx' = [tx EXCEPT !.provinces =
                                 {r \in provinces : r.country_id = req.ID}]
                    /\ UNCHANGED <<err, ret, fault>>
               ELSE /\ tx' = [tx EXCEPT !.status = "aborted"]
                    /\ err' = OuterErrAfterDelete(err, "province_delete_error")
                    /\ ret' = "province_delete_error"
                    /\ fault' = "province_delete"
    /\ pc' = "delete_defer"
    /\ UNCHANGED <<country, provinces, nextId, now, req, pre, blanks, saved, resp>>
    /\ UNCHANGED <<sanitizeVars, asked, cancelled, get>>

\* lines 506-515: the deferred function, run as Delete returns
DeleteDeferred ==
    /\ pc = "delete_defer"
    /\ IF err # "nil"
       THEN \* tx.Rollback() at line 512
            /\ tx' = [tx EXCEPT !.status = "rolledback"]
            /\ UNCHANGED <<country, provinces, fault>>
       ELSE IF CommitChecksContext /\ cancelled # NotCancelled
       THEN \* Commit returns the error of the context; line 509 returns
            /\ tx' = [tx EXCEPT !.status = "rolledback"]
            /\ fault' = "cancel"
            /\ UNCHANGED <<country, provinces>>
       ELSE IF tx.status # "active"
       THEN \* Commit fails and rolls back
            /\ tx' = [tx EXCEPT !.status = "rolledback"]
            /\ UNCHANGED <<country, provinces, fault>>
       ELSE \E ok \in BOOLEAN :
               IF ok
               THEN /\ country' = country \ tx.country
                    /\ provinces' = provinces \ tx.provinces
                    /\ tx' = [tx EXCEPT !.status = "committed"]
                    /\ UNCHANGED fault
               ELSE /\ tx' = [tx EXCEPT !.status = "rolledback"]
                    /\ fault' = "commit"
                    /\ UNCHANGED <<country, provinces>>
    /\ resp' = Response("Delete", 0, ret, req.ID, 0, NoCountry)
    /\ pc' = "idle"
    /\ UNCHANGED <<nextId, now, req, err, ret, pre, blanks, saved>>
    /\ UNCHANGED <<sanitizeVars, asked, cancelled, get>>

(***************************************************************************)
(* countryRepo.GetByID called by a request that runs beside a Store: its   *)
(* two queries run on cr.db, outside any transaction, one after the other, *)
(* and each sees the rows committed when it runs.                          *)
(***************************************************************************)
\* as if a query saw the rows a transaction in progress has inserted
DirtyCountry == country \cup tx.country

\* the rows of country a query run on cr.db sees (line 547): the committed
\* ones
VisibleCountry == country

\* lines 535-563: the country query
GetCountryQuery ==
    /\ get.pc = "idle"
    /\ \E id \in KnownIds, f \in GetFaults :
          LET found == {r \in VisibleCountry : r.id = id}
          IN  IF f = "country_query"
              THEN get' = [pc |-> "done", id |-> id, f |-> f, c |-> NoCountry,
                           out |-> "storage_error"]
              ELSE IF found = {}
              THEN get' = [pc |-> "done", id |-> id, f |-> f, c |-> NoCountry,
                           out |-> NoRowsError]
              ELSE \E r \in found :
                      get' = [pc |-> "provinces", id |-> id, f |-> f,
                              c |-> ScanCountry(r), out |-> "none"]
    /\ UNCHANGED <<country, provinces, nextId, now, pc, req, tx, err, ret, pre,
                   blanks, fault, saved, resp, asked, cancelled>>
    /\ UNCHANGED sanitizeVars

\* lines 565-609: the province query and the reading of its rows
GetProvinceQuery ==
    /\ get.pc = "provinces"
    /\ IF get.f = "province_query"
       THEN get' = [get EXCEPT !.pc = "done", !.c = NoCountry,
                               !.out = "storage_error"]
       ELSE \E s \in Orderings(ProvinceRowsOf(get.id)) :
               get' = [get EXCEPT
                   !.pc = "done",
                   !.out = "nil",
                   !.c = [get.c EXCEPT
                       !.Provinces = [i \in DOMAIN s |-> ScanProvince(s[i])],
                       !.ProvincesNil = InitialProvincesNil /\ s = <<>>]]
    /\ UNCHANGED <<country, provinces, nextId, now, pc, req, tx, err, ret, pre,
                   blanks, fault, saved, resp, asked, cancelled>>
    /\ UNCHANGED sanitizeVars

\* GetByID has returned to its caller
GetReturn ==
    /\ get.pc = "done"
    /\ get' = NoGet
    /\ UNCHANGED <<country, provinces, nextId, now, pc, req, tx, err, ret, pre,
                   blanks, fault, saved, resp, asked, cancelled>>
    /\ UNCHANGED sanitizeVars

(***************************************************************************)
(* provinceRepo.Update (626-643), countryRepo.Update (482-500).            *)
(***************************************************************************)
\* as if the statement also set new_case
ProvinceRepoUpdateNewCase(rows, p) ==
    {IF r.id = p.ID
     THEN [r EXCEPT !.name = p.Name, !.total = p.Total,
                    !.new_case = p.NewCase, !.treated = p.Treated,
                    !.decovering_case = p.DecoveringCase,
                    !.test_case = p.TestCase, !.dead = p.Dead,
                    !.negative_case = p.NegativeTest,
                    !.updated_at = p.UpdatedAt]
     ELSE r : r \in rows}

\* the table provinces after provinceRepo.Update(p)
ProvinceRepoUpdate(rows, p) ==
    {IF r.id = p.ID
     THEN [r EXCEPT !.name = p.Name, !.total = p.Total, !.treated = p.Treated,
                    !.decovering_case = p.DecoveringCase,
                    !.test_case = p.TestCase, !.dead = p.Dead,
                    !.negative_case = p.NegativeTest,
                    !.updated_at = p.UpdatedAt]
     ELSE r : r \in rows}

\* the table country after countryRepo.Update(c)
CountryRepoUpdate(rows, c) ==
    {IF r.id = c.ID
     THEN [r EXCEPT !.name = c.Name, !.total = c.Total, !.new_case = c.NewCase,
                    !.treated = c.Treated,
                    !.decovering_case = c.DecoveringCase,
                    !.test_case = c.TestCase, !.dead = c.Dead,
                    !.negative_case = c.NegativeTest,
                    !.updated_at = c.UpdatedAt]
     ELSE r : r \in rows}

(***************************************************************************)
(* countryService.Edit (199-229), provinceService.UpdateProvince (243-258) *)
(***************************************************************************)
ProvinceIds == {r.id : r \in provinces} \cup {NoID}

CountryIds == {r.id : r \in country} \cup {NoID}

\* the bodies c.Bind parses into a Province on PUT /api/v1/province/:id
ProvincePayloads ==
    {Province(id, n, t) : id \in ProvinceIds, n \in RawNames, t \in NewTotals}

\* the bodies c.Bind parses into a Country on PUT /api/v1/country/:id
EditPayloads ==
    {Country(id, n, t, ps) :
        id \in CountryIds, n \in RawNames, t \in NewTotals,
        ps \in SeqsUpTo(ProvincePayloads, MaxProv)}

\* as if Edit called BeforeSave, as Store does
EditCountryBeforeSave(c, t, fresh) ==
    [BeforeSave(CountryPrepare(c), fresh) EXCEPT !.UpdatedAt = t]

\* lines 204-205: Prepare and the timestamp; Edit draws no identifier
EditCountry(c, t, fresh) == [CountryPrepare(c) EXCEPT !.UpdatedAt = t]

\* lines 210-214: the provinces are validated as the payload gave them
EditValidated(p) == p

\* lines 217-218
EditProvince(p, t) == [ProvincePrepare(p) EXCEPT !.UpdatedAt = t]

\* as if the loop ran from the last province of the payload to the first
RECURSIVE EditProvincesReversed(_, _, _, _)
EditProvincesReversed(rows, ps, t, n) ==
    IF n = 0 THEN rows
    ELSE EditProvincesReversed(ProvinceRepoUpdate(rows, EditProvince(ps[n], t)),
                               ps, t, n - 1)

\* the table provinces after the first n updates of the loop of 216-222
RECURSIVE EditProvinces(_, _, _, _)
EditProvinces(rows, ps, t, n) ==
    IF n = 0 THEN rows
    ELSE ProvinceRepoUpdate(EditProvinces(rows, ps, t, n - 1),
                            EditProvince(ps[n], t))

\* PUT /api/v1/country/:country_id.  failAt: the storage call that fails:
\* 0 none, k the update of the k-th province, Len + 1 the country's
Edit ==
    /\ Arrive
    /\ \E body \in EditPayloads :
          /\ blanks' = BlankPositions(body)
          /\ asked' = [i \in DOMAIN body.Provinces |->
                           [ID |-> body.Provinces[i].ID,
                            Name |-> body.Provinces[i].Name]]
          /\ LET c == EditCountry(body, now', nextId)
                 ps == body.Provinces
                 n == Len(ps)
                 k == FirstInvalid([i \in DOMAIN ps |-> EditValidated(ps[i])])
             IN  IF ~CountryValidate(c)
                 THEN /\ resp' = Response("Edit", 400, "country: name is required",
                                          body.ID, 0, NoCountry)
                      /\ fault' = "none"
                      /\ UNCHANGED <<country, provinces>>
                 ELSE IF k # 0
                 THEN /\ resp' = Response("Edit", 400, "province: name is required",
                                          body.ID, k, NoCountry)
                      /\ fault' = "none"
                      /\ UNCHANGED <<country, provinces>>
                 ELSE \E failAt \in 0 .. n + 1 :
                         IF failAt \in 1 .. n
                         THEN /\ provinces' = EditProvinces(provinces, ps, now',
                                                            failAt - 1)
                              /\ UNCHANGED country
                              /\ fault' = "province_update"
                              /\ resp' = Response("Edit", 500,
                                    "Internal server error, could not update province information",
                                    body.ID, failAt, NoCountry)
                         ELSE /\ provinces' = EditProvinces(provinces, ps, now', n)
                              /\ IF failAt = 0
                                 THEN /\ country' = CountryRepoUpdate(country, c)
                                      /\ fault' = "none"
                                      /\ resp' = Response("Edit", 200, "", body.ID, 0,
                                            [c EXCEPT !.Provinces = <<>>])
                                 ELSE /\ UNCHANGED country
                                      /\ fault' = "country_update"
                                      /\ resp' = Response("Edit", 500,
                                            "Internal server error", body.ID,
                                            failAt, NoCountry)
    /\ UNCHANGED <<nextId, pc, req, tx, err, ret, saved>>

\* lines 248-249 of UpdateProvince
UpdateProvincePrepared(p, t) == [ProvincePrepare(p) EXCEPT !.UpdatedAt = t]

\* PUT /api/v1/province/:province_id
UpdateProvince ==
    /\ Arrive
    /\ \E body \in ProvincePayloads, ok \in BOOLEAN :
          /\ blanks' = IF IsBlank(body.Name) THEN {0} ELSE {}
          /\ asked' = <<>>
          /\ LET p == UpdateProvincePrepared(body, now')
             IN  IF ~ProvinceValidate(p)
                 THEN /\ resp' = Response("UpdateProvince", 400,
                                          "province: name is required", body.ID,
                                          0, NoCountry)
                      /\ fault' = "none"
                      /\ UNCHANGED provinces
                 ELSE IF ok
                 THEN /\ provinces' = ProvinceRepoUpdate(provinces, p)
                      /\ fault' = "none"
                      /\ resp' = Response("UpdateProvince", 200, "", body.ID, 0,
                                          NoCountry)
                 ELSE /\ UNCHANGED provinces
                      /\ fault' = "province_update"
                      /\ resp' = Response("UpdateProvince", 500,
                            "Internal server error, could not update province information",
                            body.ID, 1, NoCountry)
    /\ UNCHANGED <<country, nextId, pc, req, tx, err, ret, saved>>

Next ==
    \/ StoreUnparsable
    \/ Store
    \/ SaveBegin
    \/ SaveInsertCountry
    \/ SaveInsertProvinces
    \/ SaveDeferred
    \/ SaveCommit
    \/ StoreRespond
    \/ FindByCountryID
    \/ Edit
    \/ UpdateProvince

Spec == Init /\ [][Next]_vars

\* POST /api/v1/country alone, with the context of the request cancelled at
\* any point of Save
NextCancel ==
    \/ Store
    \/ Cancel
    \/ SaveBegin
    \/ SaveInsertCountry
    \/ SaveInsertProvinces
    \/ SaveDeferred
    \/ SaveCommit
    \/ StoreRespond

SpecCancel == Init /\ [][NextCancel]_vars

\* POST /api/v1/country with a GetByID of another request running beside it
NextConcurrent ==
    \/ Store
    \/ SaveBegin
    \/ SaveInsertCountry
    \/ SaveInsertProvinces
    \/ SaveDeferred
    \/ SaveCommit
    \/ StoreRespond
    \/ GetCountryQuery
    \/ GetProvinceQuery
    \/ GetReturn

SpecConcurrent == Init /\ [][NextConcurrent]_vars

\* POST /api/v1/country and calls of countryRepo.Delete, one at a time, with
\* the context of the caller cancelled at any point
NextDelete ==
    \/ Store
    \/ Cancel
    \/ SaveBegin
    \/ SaveInsertCountry
    \/ SaveInsertProvinces
    \/ SaveDeferred
    \/ SaveCommit
    \/ StoreRespond
    \/ DeleteBegin
    \/ DeleteCountryRow
    \/ DeleteProvinceRows
    \/ DeleteDeferred

SpecDelete == Init /\ [][NextDelete]_vars


(***************************************************************************)
(* Prepare applied twice to one name, for the country and the province.    *)
(***************************************************************************)
Alphabet == {"a", " ", "<", ">", "&", "'", "\""}

SanitizeInit ==
    /\ StoreInit
    /\ sName \in SeqsUpTo(Alphabet, MaxNameLen)
    /\ sOnce = NoNames
    /\ sTwice = NoNames
    /\ sPc = 0

\* Country.Prepare and Province.Prepare on a fresh entity of that name
PrepareOnce ==
    /\ sPc = 0
    /\ sOnce' = [country |-> CountryPrepare(Country(NoID, sName, 0, <<>>)).Name,
                 province |-> ProvincePrepare(Province(NoID, sName, 0)).Name]
    /\ sPc' = 1
    /\ UNCHANGED <<sName, sTwice>>
    /\ UNCHANGED storeVars

\* Prepare again, on the entities the first Prepare left
PrepareTwice ==
    /\ sPc = 1
    /\ sTwice' = [country |->
                     CountryPrepare(Country(NoID, sOnce.country, 0, <<>>)).Name,
                  province |->
                     ProvincePrepare(Province(NoID, sOnce.province, 0)).Name]
    /\ sPc' = 2
    /\ UNCHANGED <<sName, sOnce>>
    /\ UNCHANGED storeVars

SanitizeNext ==
    \/ PrepareOnce
    \/ PrepareTwice

SpecSanitize == SanitizeInit /\ [][SanitizeNext]_vars


(***************************************************************************)
(* The claims.                                                             *)
(***************************************************************************)
IdsOf(rows) == {r.id : r \in rows}

\* the identifiers of the province rows that carry the foreign key id
StoredProvinceIds(id) == IdsOf({r \in provinces : r.country_id = id})

\* Save has returned and Store has not answered yet
SaveReturned == pc = "store_respond"

InsertErrors == {"country_insert_error", "province_insert_error", "no_values_error"}

\* C1: for every aggregate Save was ever called with, in every state and
\* whichever storage call failed, the store holds the country row together
\* with exactly the province rows it was saved with, or neither the row nor
\* any province row of that country.
C1_SaveAllOrNothing ==
    \A a \in saved :
        \/ a.id \in IdsOf(country) /\ StoredProvinceIds(a.id) = a.pids
        \/ a.id \notin IdsOf(country) /\ StoredProvinceIds(a.id) = {}

\* C1: Save of a country with provinces returned after the province insert
\* failed, and nothing of the aggregate is in the store.
C1_Witness ==
    /\ SaveReturned
    /\ fault = "province_insert"
    /\ Len(req.Provinces) = MaxProv
    /\ req.ID \notin IdsOf(country)
    /\ StoredProvinceIds(req.ID) = {}

\* C2: whenever Save returns the error of a failed insert, the transaction
\* was rolled back, not committed, and both tables are as they were before
\* the call.
C2_InsertFailureRollsBack ==
    (SaveReturned /\ ret \in InsertErrors) =>
        /\ tx.status = "rolledback"
        /\ country = pre.country
        /\ provinces = pre.provinces

\* C3: a Store whose payload has a blank name (the country's, or any
\* province's at any position) ends with the validation error 400, Save is
\* not called for it, and both tables are as they were.
C3_BlankNameStoresNothing ==
    /\ pc # "idle" => blanks = {}
    /\ (pc = "idle" /\ resp.op = "Store" /\ blanks # {}) =>
          /\ resp.status = 400
          /\ resp.msg = IF 0 \in blanks THEN "country: name is required"
                        ELSE "province: name is required"
          /\ saved = pre.saved
          /\ country = pre.country
          /\ provinces = pre.provinces

\* C3: a Store whose first province is valid and whose second is blank was
\* answered 400 at the second province, with both tables empty.
C3_Witness ==
    /\ pc = "idle"
    /\ resp.op = "Store"
    /\ blanks = {2}
    /\ resp.status = 400
    /\ resp.at = 2
    /\ saved = {}
    /\ country = {}
    /\ provinces = {}

\* a name as EscapeString leaves it: no bare metacharacter, and every & opens
\* one of the five entities
IsEscaped(name) ==
    \A i \in DOMAIN name :
        /\ name[i] \notin {"<", ">", "'", "\""}
        /\ name[i] = "&" =>
              \E e \in {Amp, Apos, Lt, Gt, Quot} :
                  /\ i + Len(e) - 1 <= Len(name)
                  /\ SubSeq(name, i, i + Len(e) - 1) = e

IsTrimmed(name) ==
    name # <<>> => ~IsSpace(name[1]) /\ ~IsSpace(name[Len(name)])

\* C4: in every state every row of country and of provinces has a name that
\* is not empty, has no blank at either end and is HTML-escaped.
C4_StoredNamesSanitized ==
    \A r \in country \cup provinces :
        r.name # <<>> /\ IsTrimmed(r.name) /\ IsEscaped(r.name)

\* the counters of an entity, in the order of the struct
CountersOf(e) ==
    <<e.Total, e.NewCase, e.Treated, e.DecoveringCase, e.TestCase, e.Dead,
      e.NegativeTest>>

\* got is c as GetByID may return it: the same name and counters, and c's
\* provinces, each once, in non-increasing order of total
SameAggregate(got, c) ==
    /\ got.ID = c.ID
    /\ got.Name = c.Name
    /\ CountersOf(got) = CountersOf(c)
    /\ Len(got.Provinces) = Len(c.Provinces)
    /\ \A i \in DOMAIN c.Provinces :
          \E j \in DOMAIN got.Provinces :
              /\ got.Provinces[j].ID = c.Provinces[i].ID
              /\ got.Provinces[j].Name = c.Provinces[i].Name
              /\ CountersOf(got.Provinces[j]) = CountersOf(c.Provinces[i])
    /\ \A i, j \in DOMAIN got.Provinces :
          i < j => got.Provinces[i].Total >= got.Provinces[j].Total

\* C5: when Save returns from a Store of a valid payload in which no storage
\* call failed, Store answers with the country, and GetByID of its
\* identifier returns the same name, counters and provinces, ordered by
\* descending total.
C5_StoreThenGetByID ==
    (SaveReturned /\ fault = "none") =>
        /\ ret = "nil"
        /\ \A g \in GetByID(req.ID, "none") :
              g.err = "nil" /\ SameAggregate(g.country, req)

\* C6: Save of a valid country with no provinces, no storage call failing,
\* returns no error and has committed the country row.
C6_NoProvincesSaved ==
    (SaveReturned /\ req.Provinces = <<>> /\ fault = "none") =>
        /\ ret = "nil"
        /\ tx.status = "committed"
        /\ req.ID \in IdsOf(country)

\* the step is a whole Edit or UpdateProvince request
EditOrUpdateStep ==
    /\ pc = "idle"
    /\ pc' = "idle"
    /\ now' = now + 1
    /\ resp'.op \in {"Edit", "UpdateProvince"}

\* C7: an Edit or UpdateProvince request draws no identifier and leaves the
\* identifiers of both tables as they were; a successful Edit answers with
\* the identifier of its payload, and when a country has that identifier its
\* row is the one written.
C7_EditKeepsIdentifiers ==
    [][EditOrUpdateStep =>
          /\ nextId' = nextId
          /\ IdsOf(country') = IdsOf(country)
          /\ IdsOf(provinces') = IdsOf(provinces)
          /\ (resp'.op = "Edit" /\ resp'.status = 200) =>
                /\ resp'.country.ID = resp'.id
                /\ resp'.id \in IdsOf(country) =>
                      \E r \in country' :
                          r.id = resp'.id /\ r.updated_at = now']_vars

\* C7: an Edit of an existing country succeeded and its row, found under the
\* same identifier, carries the counters and the timestamp of the Edit.
C7_Witness ==
    /\ pc = "idle"
    /\ resp.op = "Edit"
    /\ resp.status = 200
    /\ \E r \in country :
          /\ r.id = resp.id
          /\ r.total \in NewTotals
          /\ r.updated_at = now
    /\ nextId = Cardinality(IdsOf(country)) + Cardinality(IdsOf(provinces)) + 1

\* C8: a Find whose country query was answered by the store ends 404 when no
\* country row has the identifier, and ends 200 only when one has; 404 is
\* never the answer for an identifier a row has.
C8_UnknownIdIsNotFound ==
    (pc = "idle" /\ resp.op = "Find") =>
        /\ (resp.id \notin IdsOf(country) /\ fault # "country_query") =>
              resp.status = 404 /\ resp.msg = "Error: No data found"
        /\ resp.status = 200 =>
              resp.id \in IdsOf(country) /\ resp.country.ID = resp.id
        /\ resp.status = 404 => resp.id \notin IdsOf(country)

\* C8: with a country stored, a Find of the identifier of one of its
\* provinces, which no country has, was answered 404.
C8_Witness ==
    /\ pc = "idle"
    /\ resp.op = "Find"
    /\ resp.status = 404
    /\ country # {}
    /\ resp.id \in IdsOf(provinces)
    /\ fault = "none"

\* C9, as the spec states it: Prepare applied twice leaves the name that
\* Prepare applied once leaves.
C9_PrepareIdempotent == sPc = 2 => sTwice = sOnce

HasMetaChar(name) == \E i \in DOMAIN name : name[i] \in MetaChars

\* C9, amended: Prepare applied twice leaves the name of one application
\* exactly when the name has none of & ' < > "; with one of them, the second
\* application changes the name again, for the country and the province.
C9_PrepareIdempotentWithoutMetaChars ==
    sPc = 2 =>
        /\ ~HasMetaChar(sName) => sTwice = sOnce
        /\ HasMetaChar(sName) =>
              /\ sTwice.country # sOnce.country
              /\ sTwice.province # sOnce.province

\* C9: a name with blanks to trim and no metacharacter went through Prepare
\* twice; the first cut the blanks and the second changed nothing.
C9_Witness ==
    /\ sPc = 2
    /\ sName # <<>>
    /\ IsSpace(sName[1])
    /\ ~HasMetaChar(sName)
    /\ sOnce.country # sName
    /\ sOnce.country # <<>>
    /\ sTwice = sOnce

\* C10: a Find answered 200 carries exactly the province rows whose
\* country_id is the identifier asked for, each once, column by column, in
\* non-increasing order of total, in a collection that is not nil.
C10_ProvincesOfTheCountry ==
    (pc = "idle" /\ resp.op = "Find" /\ resp.status = 200) =>
        LET ps == resp.country.Provinces
            rows == {r \in provinces : r.country_id = resp.id}
        IN  /\ Len(ps) = Cardinality(rows)
            /\ \A r \in rows :
                  \E i \in DOMAIN ps :
                      /\ ps[i].ID = r.id
                      /\ ps[i].Name = r.name
                      /\ CountersOf(ps[i]) =
                            <<r.total, r.new_case, r.treated, r.decovering_case,
                              r.test_case, r.dead, r.negative_case>>
                      /\ ps[i].UpdatedAt = r.updated_at
            /\ \A i \in DOMAIN ps : ps[i].ID \in IdsOf(rows)
            /\ \A i, j \in DOMAIN ps : i < j => ps[i].Total >= ps[j].Total
            /\ ~resp.country.ProvincesNil

\* C10: a Find returned the two provinces of a country, the larger total
\* first.
C10_Witness ==
    /\ pc = "idle"
    /\ resp.op = "Find"
    /\ resp.status = 200
    /\ Len(resp.country.Provinces) = 2
    /\ resp.country.Provinces[1].Total > resp.country.Provinces[2].Total

\* the last of the first m provinces of the payload that names the row id
LastAsked(id, m) ==
    LET hits == {i \in 1 .. m : asked[i].ID = id}
    IN  CHOOSE i \in hits : \A j \in hits : j <= i

\* the table provinces is the one of the request's arrival with the first m
\* provinces of the payload written over it, in the order of the payload:
\* a row named among them carries the name of its last mention, the new
\* total and the timestamp of the request; every other row is as it was
EditApplied(m) ==
    /\ IdsOf(provinces) = IdsOf(pre.provinces)
    /\ Cardinality(provinces) = Cardinality(pre.provinces)
    /\ \A r \in pre.provinces :
          IF \E i \in 1 .. m : asked[i].ID = r.id
          THEN \E q \in provinces :
                  /\ q.id = r.id
                  /\ q.name = PrepareName(asked[LastAsked(r.id, m)].Name)
                  /\ q.total \in NewTotals
                  /\ q.updated_at = now
          ELSE r \in provinces

\* C11: an Edit that ends 400 has written nothing; one that ends 500 at the
\* k-th province update has written the first k-1 provinces of the payload,
\* in order, and neither the later ones nor the country row; one that ends
\* 500 at the country update has written every province and not the country
\* row; one that ends 200 has written every province and then the country.
C11_EditWritesInOrder ==
    (pc = "idle" /\ resp.op = "Edit") =>
        LET n == Len(asked)
        IN  /\ resp.status \in {200, 400, 500}
            /\ resp.status = 400 =>
                  country = pre.country /\ provinces = pre.provinces
            /\ resp.status = 500 =>
                  /\ country = pre.country
                  /\ resp.at \in 1 .. n + 1
                  /\ EditApplied(resp.at - 1)
            /\ resp.status = 200 =>
                  /\ EditApplied(n)
                  /\ IdsOf(country) = IdsOf(pre.country)
                  /\ \A r \in pre.country :
                        IF r.id = resp.id
                        THEN \E q \in country :
                                q.id = r.id /\ q.updated_at = now
                        ELSE r \in country

\* C11: an Edit of two stored provinces failed at the second update: the
\* first province is written, the second and the country row are as before.
C11_Witness ==
    /\ pc = "idle"
    /\ resp.op = "Edit"
    /\ resp.status = 500
    /\ resp.at = 2
    /\ Len(asked) = 2
    /\ asked[1].ID # asked[2].ID
    /\ \E r1, r2 \in provinces :
          /\ r1.id = asked[1].ID
          /\ r1.updated_at = now
          /\ r1 \notin pre.provinces
          /\ r2.id = asked[2].ID
          /\ r2 \in pre.provinces
    /\ country = pre.country
    /\ country # {}

\* C13: when Save returns no error its transaction is committed and the
\* country row and every province row of the aggregate are in the store, and
\* a Store answered 200 names a country that is in the store.
C13_SuccessMeansCommitted ==
    /\ (SaveReturned /\ ret = "nil") =>
          /\ tx.status = "committed"
          /\ req.ID \in IdsOf(country)
          /\ StoredProvinceIds(req.ID) =
                {req.Provinces[i].ID : i \in DOMAIN req.Provinces}
    /\ (pc = "idle" /\ resp.op = "Store" /\ resp.status = 200) =>
          resp.id \in IdsOf(country)

\* every province row has the country_id and the new_case it was inserted
\* with: it belongs to an aggregate Save was called with, under that
\* aggregate's identifier
KeepsInsertedColumns ==
    \A r \in provinces :
        /\ \E a \in saved : r.id \in a.pids /\ r.country_id = a.id
        /\ r.new_case \in {Province(r.id, <<>>, t).NewCase : t \in Totals}

\* C15: in every state every province row has the country_id and new_case
\* of its insert.  An Edit or UpdateProvince request adds and removes no
\* province row and changes no row's id, country_id or new_case; an
\* UpdateProvince leaves the country table and every province row other
\* than the one its payload names as they were, and when it answers 200
\* that row carries the new total and timestamp.
C15_UpdateWritesOnlyItsColumns ==
    [][/\ KeepsInsertedColumns'
       /\ EditOrUpdateStep =>
             /\ Cardinality(provinces') = Cardinality(provinces)
             /\ \A r \in provinces :
                   \E q \in provinces' :
                       /\ q.id = r.id
                       /\ q.country_id = r.country_id
                       /\ q.new_case = r.new_case
             /\ resp'.op = "UpdateProvince" =>
                   /\ country' = country
                   /\ \A r \in provinces : r.id # resp'.id => r \in provinces'
                   /\ resp'.status # 200 => provinces' = provinces
                   /\ resp'.status = 200 =>
                         \A q \in provinces' :
                             q.id = resp'.id =>
                                 q.total \in NewTotals /\ q.updated_at = now']_vars

\* C15: an UpdateProvince answered 200 wrote one of two stored provinces:
\* the row has the new total and its old new_case, the other row is as it
\* was.
C15_Witness ==
    /\ pc = "idle"
    /\ resp.op = "UpdateProvince"
    /\ resp.status = 200
    /\ Cardinality(provinces) = 2
    /\ \E r \in provinces, q \in pre.provinces :
          /\ r.id = resp.id
          /\ q.id = r.id
          /\ r.total \in NewTotals
          /\ r.total # q.total
          /\ r.new_case = q.new_case
          /\ r.country_id = q.country_id
    /\ \E r \in provinces : r.id # resp.id /\ r \in pre.provinces

\* nothing of the aggregate Save was called with is in the store
NothingCommitted ==
    /\ tx.status # "committed"
    /\ req.ID \notin IdsOf(country)
    /\ StoredProvinceIds(req.ID) = {}
    /\ country = pre.country
    /\ provinces = pre.provinces

\* C16, as the spec states it: when the context was cancelled at any point
\* of Save before the commit completed, nothing of the request is committed.
C16_CancelledNeverCommits ==
    (SaveReturned /\ cancelled # NotCancelled) => NothingCommitted

\* C16, amended: when the context was cancelled before tx.Commit() was
\* entered, nothing of the request is committed; a cancellation that arrives
\* once Commit is entered does not take part in the outcome, which is the
\* one of the store's COMMIT.
C16_CancelledBeforeCommitNeverCommits ==
    SaveReturned =>
        /\ cancelled \notin {NotCancelled, "save_commit"} => NothingCommitted
        /\ cancelled = "save_commit" =>
              \/ NothingCommitted /\ tx.status = "rolledback"
              \/ /\ tx.status = "committed"
                 /\ fault = "none"
                 /\ req.ID \in IdsOf(country)

\* C16: both inserts succeeded, the context was cancelled before the
\* deferred function ran, and Save returned with nothing committed.
C16_Witness ==
    /\ SaveReturned
    /\ cancelled = "save_defer"
    /\ Len(req.Provinces) = MaxProv
    /\ tx.country # {}
    /\ tx.provinces # {}
    /\ tx.status = "rolledback"
    /\ NothingCommitted

\* C12: a GetByID that runs beside a Store returns, when no query of its own
\* fails, either errNotFound or a country Save was called with together
\* with exactly the provinces it was saved with; it never returns a country
\* with only some of them, or one whose Save has not committed.
C12_NeverHalfWritten ==
    get.pc = "done" =>
        /\ get.out \in {"nil", "errNotFound", "storage_error"}
        /\ get.f = "none" => get.out \in {"nil", "errNotFound"}
        /\ get.out = "nil" =>
              /\ get.c.ID = get.id
              /\ get.id \in IdsOf(country)
              /\ Len(get.c.Provinces) =
                    Cardinality({get.c.Provinces[i].ID : i \in DOMAIN get.c.Provinces})
              /\ \E a \in saved :
                    /\ a.id = get.id
                    /\ {get.c.Provinces[i].ID : i \in DOMAIN get.c.Provinces} = a.pids

\* C12: while Save had inserted the country row of an aggregate and not yet
\* its provinces, a GetByID of that identifier returned errNotFound.
C12_Witness ==
    /\ pc = "save_provinces"
    /\ tx.country # {}
    /\ Len(req.Provinces) = MaxProv
    /\ get.pc = "done"
    /\ get.id = req.ID
    /\ get.f = "none"
    /\ get.out = "errNotFound"

\* C14: while Delete runs both tables are as they were when it was called.
\* When it has returned, either its transaction is committed, both deletes
\* having succeeded, and the country row of the identifier and every
\* province row with that country_id are gone and nothing else is, or the
\* transaction is not committed and both tables are as they were.  In every
\* state each province row has its country row, and each country row has
\* every province row it was saved with.
C14_DeleteAllOrNothing ==
    /\ pc \in {"delete_country", "delete_provinces", "delete_defer"} =>
          country = pre.country /\ provinces = pre.provinces
    /\ (pc = "idle" /\ resp.op = "Delete") =>
          \/ /\ tx.status = "committed"
             /\ ret = "nil"
             /\ fault = "none"
             /\ country = {r \in pre.country : r.id # resp.id}
             /\ provinces = {r \in pre.provinces : r.country_id # resp.id}
          \/ /\ tx.status # "committed"
             /\ country = pre.country
             /\ provinces = pre.provinces
    /\ \A r \in provinces : r.country_id \in IdsOf(country)
    /\ \A a \in saved :
          a.id \in IdsOf(country) => StoredProvinceIds(a.id) = a.pids

\* C14: Delete of a country with two provinces deleted the country row in
\* its transaction, failed to delete the provinces, and returned with the
\* country row and both province rows still in the store.
C14_Witness ==
    /\ pc = "idle"
    /\ resp.op = "Delete"
    /\ fault = "province_delete"
    /\ tx.country # {}
    /\ tx.status = "rolledback"
    /\ resp.id \in IdsOf(country)
    /\ Cardinality(StoredProvinceIds(resp.id)) = 2

====
